---- MODULE Spec2Model ----
(***************************************************************************)
(* A model of s2n-quic's transmission scheduling core:                     *)
(*   - the WakeupQueue / WakeupHandle pair of                              *)
(*     quic/s2n-quic-transport/src/wakeup_queue.rs (specification Spec),   *)
(*   - the packet payload encoders ApplicationTransmission and             *)
(*     EarlyTransmission of quic/s2n-quic-transport/src/space              *)
(*     (specification EncodeSpec).                                         *)
(***************************************************************************)
EXTENDS Integers, Sequences, FiniteSets, TLC

\* ------------------------------------------------------------------ bounds

\* Number of WakeupHandles created on the queue (create_wakeup_handle).
NumHandles == 2
\* Cap on the number of ids that are pending or about to be pushed.
MaxQueue == 2
\* Largest buffer capacity handed to encode.
MaxCapacity == 3
\* Largest encoding size of a frame a producer offers.
MaxFrameSize == 2
\* Largest number of write_frame calls of the stream / crypto producer.
MaxWrites == 2
\* Latest deadline a connection timer is armed with.
MaxDeadline == 2
\* Width in bits of the microsecond count of a Timestamp (64 in the source).
MicrosBits == 3
\* Nanoseconds in a microsecond (1000 in the source).
NanosPerMicro == 2
\* Largest number of Timestamp operations applied one after the other.
MaxOps == 2
\* Largest number of bytes of a request after its (partial) "GET /".
MaxTail == 2
\* Largest number of chunks a request arrives in.
MaxChunks == 3

\* ------------------------------------------------------ wakeup queue state

VARIABLES
    \* QueueState (behind the Mutex)
    woken_connections,      \* VecDeque<T>: ids of the woken connections
    waker,                  \* Option<Waker>: NoWaker or a waker
    wakeup_in_progress,     \* bool
    lock,                   \* the threads holding the Mutex (at most one)
    \* WakeupHandle, one per handle
    wakeup_queued,          \* [Handles -> BOOLEAN]: the handle's latch
    pc,                     \* [Handles -> position inside wakeup()]
    maybe_waker,            \* [Handles -> Option<Waker>]: the local of wakeup()
    \* the reactor, the caller of poll_pending_wakeups
    result,                 \* the value the latest call returned
    blocked_on,             \* the waker the reactor sleeps on, or NoWaker
    \* history of the current drain window (since the latest drain)
    drained,                \* whether poll_pending_wakeups has drained before
    swap_dirty,             \* whether the latest call was handed a non-empty buffer
    enqueued,               \* ids pushed by queue_wakeup, in push order
    lock_order,             \* ids of the wakeup() calls, in lock order
    captured_since_drain,   \* number of Some(waker) queue_wakeup returned
    notified_since_drain,   \* number of waker.wake() calls made
    \* history per handle
    enq_since_handled,      \* pushes of the id since the last wakeup_handled
    stale                   \* ids pending that predate the last wakeup_handled

wq_vars == <<woken_connections, waker, wakeup_in_progress, lock, wakeup_queued,
             pc, maybe_waker, result, blocked_on, drained, swap_dirty, enqueued,
             lock_order, captured_since_drain, notified_since_drain,
             enq_since_handled, stale>>

\* ------------------------------------------------------------ encoder state

VARIABLES
    encoder,            \* "application" or "early": the PacketPayloadEncoder
    capacity,           \* capacity of the EncoderBuffer handed to encode
    minimum_len,        \* the minimum_len argument of encode
    packet_number,      \* self.packet_number
    buffer,             \* the EncoderBuffer's bytes, each named by its frame
    ack_elicitation,    \* the context's accumulator: TRUE is Eliciting
    did_send_ack,       \* the local of encode
    epc,                \* position inside encode
    writes,             \* write_frame calls the second producer made so far
    stream_result,      \* what the second producer's on_transmit returned
    calls,              \* the collaborators' methods encode invoked, in order
    tx_marked,          \* arguments of tx_packet_numbers.on_transmit, in order
    write_result,       \* what the latest write_frame call returned
    reserve_result,     \* what the latest reserve_minimum_space_for_frame returned
    accepted            \* the frames write_frame accepted, in order

enc_vars == <<encoder, capacity, minimum_len, packet_number, buffer,
              ack_elicitation, did_send_ack, epc, writes, stream_result, calls,
              tx_marked, write_result, reserve_result, accepted>>

\* ------------------------------------------------- frame exchange interests

VARIABLES
    ack_interests,      \* ack_manager.frame_exchange_interests()
    second_interests,   \* the interests of the stream manager / crypto stream
    size_hint,          \* what the latest encoding_size_hint call returned
    aggregated          \* what the latest frame_exchange_interests call returned

fei_vars == <<ack_interests, second_interests, size_hint, aggregated>>

\* --------------------------------------------------------- connection timers

VARIABLES
    close_timer,        \* VirtualTimer: NoDeadline or the armed deadline
    peer_idle_timer,    \* VirtualTimer
    local_idle_timer,   \* VirtualTimer
    iterated            \* the deadlines the latest iter() yielded, in order

timer_vars == <<close_timer, peer_idle_timer, local_idle_timer, iterated>>

\* ----------------------------------------------------------------- timestamps

VARIABLES
    build,              \* whether debug assertions are compiled in
    initial,            \* the Timestamp the operations start from (micros)
    duration,           \* the Duration handed to the operations (nanos)
    ts,                 \* the Timestamp the operations have produced (micros)
    ops,                \* the operations applied to ts, in order
    returned            \* what the latest operation returned

time_vars == <<build, initial, duration, ts, ops, returned>>

\* ------------------------------------------------------------ request parser

VARIABLES
    request,            \* the bytes the peer sends on the stream
    chunks,             \* &[Bytes]: the chunks received so far, in order
    path,               \* the String the calls of parse_h09_request share
    partial,            \* path as the latest call on an open stream left it
    parsed,             \* what the latest parse_h09_request call returned
    stream              \* "idle", "open" or "closed": is_open of the latest call

parse_vars == <<request, chunks, path, partial, parsed, stream>>

vars == <<wq_vars, enc_vars, fei_vars, timer_vars, time_vars, parse_vars>>

Handles == 1..NumHandles
\* Two wakers: enough to tell will_wake's two answers apart.
Wakers == {1, 2}
\* Option<Waker>::None
NoWaker == 0
\* The thread that calls poll_pending_wakeups.
ReactorThread == NumHandles + 1

\* The id a handle was created with: create_wakeup_handle(id).
HandleId(h) == h

\* Number of occurrences of id in the sequence q.
RECURSIVE Count(_, _)
Count(id, q) ==
    IF q = <<>> THEN 0
    ELSE (IF Head(q) = id THEN 1 ELSE 0) + Count(id, Tail(q))

\* Waker::will_wake: both wakers wake the same task.
WillWake(w, other) == w = other

\* The buffers the reactor hands in: an empty one, or the deque the previous
\* call returned, not cleaned (double buffering).
SwapQueues == {<<>>, result}

WakeupInit ==
    /\ woken_connections = <<>>
    /\ waker = NoWaker
    /\ wakeup_in_progress = FALSE
    /\ lock = {}
    /\ wakeup_queued = [h \in Handles |-> FALSE]
    /\ pc = [h \in Handles |-> "idle"]
    /\ maybe_waker = [h \in Handles |-> NoWaker]
    /\ result = <<>>
    /\ blocked_on = NoWaker
    /\ drained = FALSE
    /\ swap_dirty = FALSE
    /\ enqueued = <<>>
    /\ lock_order = <<>>
    /\ captured_since_drain = 0
    /\ notified_since_drain = 0
    /\ enq_since_handled = [h \in Handles |-> 0]
    /\ stale = [h \in Handles |-> 0]

\* ------------------------------------------------------ WakeupHandle::wakeup

\* Ids pending or about to be pushed by a wakeup() that holds the lock.
Outstanding ==
    Len(woken_connections) + Cardinality({h \in Handles : pc[h] = "locked"})

\* Mutant of Suppressed: wakeup() without its latch check.
NeverSuppressed(h) == FALSE

\* wakeup(): whether the call returns at its latch check.
Suppressed(h) == wakeup_queued[h]

\* Mutant of LatchStored: wakeup() forgets to store the latch.
LatchNotStored(h) == wakeup_queued

\* wakeup(): the latches after self.wakeup_queued = true.
LatchStored(h) == [wakeup_queued EXCEPT ![h] = TRUE]

\* wakeup(), up to the lock: the latch check, the latch store, queue.lock().
\* A call that returns at the latch check changes nothing.
Wakeup(h) ==
    /\ pc[h] = "idle"
    /\ IF Suppressed(h)
       THEN UNCHANGED <<wakeup_queued, pc, lock, lock_order>>
       ELSE /\ Outstanding < MaxQueue
            /\ lock = {}
            /\ wakeup_queued' = LatchStored(h)
            /\ lock' = {h}
            /\ pc' = [pc EXCEPT ![h] = "locked"]
            /\ lock_order' = Append(lock_order, HandleId(h))
    /\ UNCHANGED <<woken_connections, waker, wakeup_in_progress, maybe_waker,
                   result, blocked_on, drained, swap_dirty, enqueued,
                   captured_since_drain, notified_since_drain,
                   enq_since_handled, stale>>

\* Mutant of QueueWakeupResult: queue_wakeup without its in-progress check.
QueueWakeupResultUnchecked == waker

\* QueueState::queue_wakeup: the value it returns.
QueueWakeupResult == IF wakeup_in_progress THEN NoWaker ELSE waker

\* Mutant of InProgressAfterQueue: queue_wakeup forgets to set the flag.
InProgressNotSet == wakeup_in_progress

\* QueueState::queue_wakeup: wakeup_in_progress when it returns.
InProgressAfterQueue == TRUE

\* Mutant of PushBack: push_front instead of push_back.
PushFront(q, id) == <<id>> \o q

\* QueueState::queue_wakeup: the pending list after the push.
PushBack(q, id) == Append(q, id)

\* Mutant of LockAfterBlock: the guard lives until wakeup() returns.
LockHeldThroughWake(h) == lock

\* wakeup(): the holders of the Mutex once the locked block is left.
LockAfterBlock(h) == lock \ {h}

\* wakeup(): guard.queue_wakeup(id) under the lock, then the guard is dropped.
QueueWakeup(h) ==
    /\ pc[h] = "locked"
    /\ lock = {h}
    /\ woken_connections' = PushBack(woken_connections, HandleId(h))
    /\ maybe_waker' = [maybe_waker EXCEPT ![h] = QueueWakeupResult]
    /\ wakeup_in_progress' = InProgressAfterQueue
    /\ lock' = LockAfterBlock(h)
    /\ pc' = [pc EXCEPT ![h] = "notify"]
    /\ enqueued' = Append(enqueued, HandleId(h))
    /\ captured_since_drain' =
           captured_since_drain + (IF QueueWakeupResult # NoWaker THEN 1 ELSE 0)
    /\ enq_since_handled' = [enq_since_handled EXCEPT ![h] = @ + 1]
    /\ UNCHANGED <<waker, wakeup_queued, result, blocked_on, drained, swap_dirty,
                   lock_order, notified_since_drain, stale>>

\* wakeup(): if let Some(waker) = maybe_waker { waker.wake() }, and the return.
\* A sleeping reactor wakes when the waker it sleeps on is notified.
WakeupNotify(h) ==
    /\ pc[h] = "notify"
    /\ IF maybe_waker[h] # NoWaker
       THEN /\ notified_since_drain' = notified_since_drain + 1
            /\ blocked_on' = IF blocked_on # NoWaker /\ WillWake(maybe_waker[h], blocked_on)
                             THEN NoWaker ELSE blocked_on
       ELSE UNCHANGED <<notified_since_drain, blocked_on>>
    /\ maybe_waker' = [maybe_waker EXCEPT ![h] = NoWaker]
    /\ lock' = lock \ {h}
    /\ pc' = [pc EXCEPT ![h] = "idle"]
    /\ UNCHANGED <<woken_connections, waker, wakeup_in_progress, wakeup_queued,
                   result, drained, swap_dirty, enqueued, lock_order,
                   captured_since_drain, enq_since_handled, stale>>

\* WakeupHandle::wakeup_handled
WakeupHandled(h) ==
    /\ pc[h] = "idle"
    /\ wakeup_queued' = [wakeup_queued EXCEPT ![h] = FALSE]
    /\ enq_since_handled' = [enq_since_handled EXCEPT ![h] = 0]
    /\ stale' = [stale EXCEPT ![h] = Count(HandleId(h), woken_connections)]
    /\ UNCHANGED <<woken_connections, waker, wakeup_in_progress, lock, pc,
                   maybe_waker, result, blocked_on, drained, swap_dirty, enqueued,
                   lock_order, captured_since_drain, notified_since_drain>>

\* ------------------------------------------- WakeupQueue::poll_pending_wakeups

\* Mutant of StoredWaker: a stored waker is never replaced.
StoredWakerNoRefresh(context) ==
    IF woken_connections = <<>> /\ waker = NoWaker THEN context ELSE waker

\* Mutant of StoredWaker: the waker is stored whatever the result.
StoredWakerAlways(context) == context

\* QueueState::poll_pending_wakeups: the waker stored when the call returns.
StoredWaker(context) ==
    IF woken_connections = <<>>
    THEN IF waker # NoWaker /\ WillWake(waker, context) THEN waker ELSE context
    ELSE waker

\* Mutant of ClearedQueue: the swap buffer is not cleared.
SwapNotCleared(swap_queue) == swap_queue

\* QueueState::poll_pending_wakeups: the pending list when the call returns,
\* the swap buffer after self.woken_connections.clear().
ClearedQueue(swap_queue) == <<>>

\* WakeupQueue::poll_pending_wakeups(swap_queue, context): state.lock(), the
\* call of QueueState::poll_pending_wakeups, and the drop of the guard. The
\* reactor may sleep on the context's waker after an empty result.
PollPendingWakeups(swap_queue, context) ==
    /\ lock = {}
    /\ result' = woken_connections
    /\ woken_connections' = ClearedQueue(swap_queue)
    /\ wakeup_in_progress' = FALSE
    /\ waker' = StoredWaker(context)
    /\ lock' = {}
    /\ blocked_on' = IF woken_connections = <<>> THEN context ELSE NoWaker
    /\ drained' = TRUE
    /\ swap_dirty' = (swap_queue # <<>>)
    /\ enqueued' = <<>>
    /\ lock_order' = <<>>
    /\ captured_since_drain' = 0
    /\ notified_since_drain' = 0
    /\ stale' = [h \in Handles |-> 0]
    /\ UNCHANGED <<wakeup_queued, pc, maybe_waker, enq_since_handled>>

\* The values a call returns, each with the variant that made it.
\* No call was made yet.
NotCalled == [tag |-> "not called", value |-> 0]
\* Option<PacketNumber>::None
None == [tag |-> "None", value |-> 0]
\* Option<PacketNumber>::Some(v)
Some(v) == [tag |-> "Some", value |-> v]
\* Result<usize, ()>::Err(())
Err == [tag |-> "Err", value |-> 0]
\* Result<usize, ()>::Ok(v)
Ok(v) == [tag |-> "Ok", value |-> v]
\* A usize a call returned.
Usize(v) == [tag |-> "usize", value |-> v]

\* No encode call is in progress.
EncoderIdle ==
    /\ encoder = "application"
    /\ capacity = 0
    /\ minimum_len = 0
    /\ packet_number = 1
    /\ buffer = <<>>
    /\ ack_elicitation = FALSE
    /\ did_send_ack = FALSE
    /\ epc = "idle"
    /\ writes = 0
    /\ stream_result = "none"
    /\ calls = <<>>
    /\ tx_marked = <<>>
    /\ write_result = NotCalled
    /\ reserve_result = NotCalled
    /\ accepted = <<>>

\* FrameExchangeInterests::default(): no flag is set.
DefaultInterests == [transmission |-> FALSE, delivery_notifications |-> FALSE]

\* No producer has interests and no interest query was made.
InterestsIdle ==
    /\ ack_interests = DefaultInterests
    /\ second_interests = DefaultInterests
    /\ size_hint = NotCalled
    /\ aggregated = [tag |-> "not called", value |-> DefaultInterests]

\* Option<Timestamp>::None of a VirtualTimer that is not armed.
NoDeadline == 0

\* ConnectionTimers::default(): no timer is armed.
TimersIdle ==
    /\ close_timer = NoDeadline
    /\ peer_idle_timer = NoDeadline
    /\ local_idle_timer = NoDeadline
    /\ iterated = <<>>

\* No Timestamp operation was applied.
TimeIdle ==
    /\ build = "release"
    /\ initial = 1
    /\ duration = 0
    /\ ts = 1
    /\ ops = <<>>
    /\ returned = NotCalled

\* The char of an error message that names none.
NoChar == 256

\* What parse_h09_request returned: the variant, the bool of Ok, and the
\* char the message of Err names.
ParseNotCalled == [tag |-> "not called", has_request |-> FALSE, char |-> NoChar]
\* Ok(has_request)
ParseOk(has_request) == [tag |-> "Ok", has_request |-> has_request, char |-> NoChar]
\* Err("invalid request".into()) and Err(format!("invalid request {}", c as char).into())
ParseErr(char) == [tag |-> "Err", has_request |-> FALSE, char |-> char]

\* No stream was read.
ParseIdle ==
    /\ request = <<>>
    /\ chunks = <<>>
    /\ path = <<>>
    /\ partial = <<>>
    /\ parsed = ParseNotCalled
    /\ stream = "idle"

Init == WakeupInit /\ EncoderIdle /\ InterestsIdle /\ TimersIdle /\ TimeIdle /\ ParseIdle

Next ==
    \/ \E h \in Handles : Wakeup(h) /\ UNCHANGED <<enc_vars, fei_vars, timer_vars, time_vars, parse_vars>>
    \/ \E h \in Handles : QueueWakeup(h) /\ UNCHANGED <<enc_vars, fei_vars, timer_vars, time_vars, parse_vars>>
    \/ \E h \in Handles : WakeupNotify(h) /\ UNCHANGED <<enc_vars, fei_vars, timer_vars, time_vars, parse_vars>>
    \/ \E h \in Handles : WakeupHandled(h) /\ UNCHANGED <<enc_vars, fei_vars, timer_vars, time_vars, parse_vars>>
    \/ \E sq \in SwapQueues, w \in Wakers :
           PollPendingWakeups(sq, w) /\ UNCHANGED <<enc_vars, fei_vars, timer_vars, time_vars, parse_vars>>

\* The wakeup queue with its handles and its reactor.
Spec == Init /\ [][Next]_vars

\* ---------------------------------------------- packet payload encoders

Encoders == {"application", "early"}
PacketNumbers == {1, 2}
\* minimum_len may ask for more than the buffer can hold.
MinimumLens == 0..(MaxCapacity + 1)
FrameSizes == 1..MaxFrameSize

\* The second producer of an encoder: the stream manager of
\* ApplicationTransmission, the crypto stream of EarlyTransmission.
SecondProducer(e) == IF e = "application" THEN "stream_manager" ELSE "crypto_stream"

\* n bytes of the frame named tag.
RECURSIVE Bytes(_, _)
Bytes(tag, n) == IF n = 0 THEN <<>> ELSE <<tag>> \o Bytes(tag, n - 1)

\* EncoderBuffer::remaining_capacity
RemainingCapacity == capacity - Len(buffer)

\* usize::saturating_sub
SaturatingSub(a, b) == IF a > b THEN a - b ELSE 0

\* An encode call is about to run the ack manager's on_transmit: the buffer
\* is empty (debug_assert) and the context is constructed.
EncodeInit ==
    /\ WakeupInit
    /\ InterestsIdle
    /\ TimersIdle
    /\ TimeIdle /\ ParseIdle
    /\ write_result = NotCalled
    /\ reserve_result = NotCalled
    /\ accepted = <<>>
    /\ encoder \in Encoders
    /\ capacity \in 0..MaxCapacity
    /\ minimum_len \in MinimumLens
    /\ packet_number \in PacketNumbers
    /\ buffer = <<>>
    /\ ack_elicitation = FALSE
    /\ did_send_ack = FALSE
    /\ epc = "ack"
    /\ writes = 0
    /\ stream_result = "none"
    /\ calls = <<>>
    /\ tx_marked = <<>>

\* Mutant of AppRejects: a frame that fills the buffer exactly is rejected.
AppRejectsExactFit(size) == size >= RemainingCapacity

\* ApplicationTransmissionContext::write_frame: whether the frame is rejected.
AppRejects(size) == size > RemainingCapacity

\* EarlyTransmissionContext::write_frame: whether the frame is rejected.
EarlyRejects(size) == size > RemainingCapacity

\* WriteContext::write_frame of the encoder's context.
Rejects(size) == IF encoder = "application" THEN AppRejects(size) ELSE EarlyRejects(size)

\* Mutant of Accumulate: the latest frame's classification replaces the rest.
Overwrite(acc, eliciting) == eliciting

\* AckElicitation's |=: Eliciting (TRUE) if either operand is.
Accumulate(acc, eliciting) == acc \/ eliciting

\* write_frame: the buffer, the accumulator and the returned value after the
\* call for a frame of the given name, encoding size and ack-elicitation.
WriteFrame(tag, size, eliciting) ==
    IF Rejects(size)
    THEN /\ write_result' = None
         /\ UNCHANGED <<buffer, ack_elicitation, accepted>>
    ELSE /\ buffer' = buffer \o Bytes(tag, size)
         /\ ack_elicitation' = Accumulate(ack_elicitation, eliciting)
         /\ write_result' = Some(packet_number)
         /\ accepted' = Append(accepted, [frame |-> tag, size |-> size,
                                          eliciting |-> eliciting])

\* ack_manager.on_transmit(&mut context) with nothing to acknowledge.
AckIdle ==
    /\ epc = "ack"
    /\ did_send_ack' = FALSE
    /\ epc' = "second"
    /\ calls' = Append(calls, "ack_manager.on_transmit")
    /\ UNCHANGED <<encoder, capacity, minimum_len, packet_number, buffer,
                   ack_elicitation, writes, stream_result, tx_marked,
                   write_result, reserve_result, accepted>>

\* ack_manager.on_transmit(&mut context) offering an ACK frame: true iff
\* write_frame accepted it. ACK frames are not ack-eliciting.
AckOnTransmit(size) ==
    /\ epc = "ack"
    /\ WriteFrame("ack", size, FALSE)
    /\ did_send_ack' = ~Rejects(size)
    /\ epc' = "second"
    /\ calls' = Append(calls, "ack_manager.on_transmit")
    /\ UNCHANGED <<encoder, capacity, minimum_len, packet_number, writes,
                   stream_result, tx_marked, reserve_result>>

\* The second producer's on_transmit is entered.
SecondOnTransmit ==
    /\ epc = "second"
    /\ epc' = "writing"
    /\ calls' = Append(calls, SecondProducer(encoder) \o ".on_transmit")
    /\ UNCHANGED <<encoder, capacity, minimum_len, packet_number, buffer,
                   ack_elicitation, did_send_ack, writes, stream_result, tx_marked,
                   write_result, reserve_result, accepted>>

\* The second producer offers a frame to write_frame.
SecondWrite(size, eliciting) ==
    /\ epc = "writing"
    /\ writes < MaxWrites
    /\ WriteFrame("data", size, eliciting)
    /\ writes' = writes + 1
    /\ UNCHANGED <<encoder, capacity, minimum_len, packet_number, did_send_ack,
                   epc, stream_result, calls, tx_marked, reserve_result>>

\* Mutant of AppReserve: the call succeeds only with room to spare.
AppReserveStrict(min_size) ==
    IF RemainingCapacity <= min_size THEN Err ELSE Ok(RemainingCapacity)

\* ApplicationTransmissionContext::reserve_minimum_space_for_frame
AppReserve(min_size) ==
    IF RemainingCapacity < min_size THEN Err ELSE Ok(RemainingCapacity)

\* EarlyTransmissionContext::reserve_minimum_space_for_frame
EarlyReserve(min_size) ==
    IF RemainingCapacity < min_size THEN Err ELSE Ok(RemainingCapacity)

\* The second producer asks the context for room before it builds a frame.
SecondReserve(min_size) ==
    /\ epc = "writing"
    /\ reserve_result' = IF encoder = "application"
                         THEN AppReserve(min_size) ELSE EarlyReserve(min_size)
    /\ UNCHANGED <<encoder, capacity, minimum_len, packet_number, buffer,
                   ack_elicitation, did_send_ack, epc, writes, stream_result,
                   calls, tx_marked, write_result, accepted>>

\* Mutant of AfterSecond: an error of the second producer ends encode.
AbortOnError(r) == IF r = "err" THEN "done" ELSE "finish"

\* encode: where it continues once the second producer's on_transmit
\* returned r; the value is dropped (let _ =).
AfterSecond(r) == "finish"

\* The second producer's on_transmit returns Ok(()) or Err; encode drops it.
SecondReturn(r) ==
    /\ epc = "writing"
    /\ stream_result' = r
    /\ epc' = AfterSecond(r)
    /\ UNCHANGED <<encoder, capacity, minimum_len, packet_number, buffer,
                   ack_elicitation, did_send_ack, writes, calls, tx_marked,
                   write_result, reserve_result, accepted>>

\* Mutant of CompleteCalls: on_transmit_complete is called unconditionally.
CompleteCallsAlways == <<"ack_manager.on_transmit_complete">>

\* encode: the calls after the producers, when did_send_ack.
CompleteCalls == IF did_send_ack THEN <<"ack_manager.on_transmit_complete">> ELSE <<>>

\* Mutant of AppFinalizes: the packet is finalized whatever the buffer holds.
AlwaysFinalizes == TRUE

\* ApplicationTransmission::encode: if !buffer.is_empty()
AppFinalizes == buffer # <<>>

\* EarlyTransmission::encode: if !buffer.is_empty()
EarlyFinalizes == buffer # <<>>

\* Mutant of AppPadding: minimum_len bytes of padding whatever was written.
AppPaddingFull == minimum_len

\* ApplicationTransmission::encode: the padding length.
AppPadding == SaturatingSub(minimum_len, Len(buffer))

\* Mutant of EarlyPadding: minimum_len bytes of padding, whatever was written.
EarlyPaddingFull == minimum_len

\* EarlyTransmission::encode: the padding length.
EarlyPadding == SaturatingSub(minimum_len, Len(buffer))

\* EncoderBuffer::encode of a frame of the given size: it panics when the
\* frame does not fit the remaining capacity.
EncodeFits(size) == size <= RemainingCapacity

\* Mutant of FinalizeCalls: the packet number is marked before the padding.
FinalizeCallsMarkFirst(padding) ==
    CompleteCalls
        \o <<"tx_packet_numbers.on_transmit">>
        \o (IF padding > 0 THEN <<"buffer.encode(Padding)">> ELSE <<>>)

\* encode: the calls after the producers of a call that finalizes its packet
\* and returns: on_transmit_complete, the padding, the marking.
FinalizeCalls(padding) ==
    CompleteCalls
        \o (IF padding > 0 THEN <<"buffer.encode(Padding)">> ELSE <<>>)
        \o <<"tx_packet_numbers.on_transmit">>

\* The rest of encode for finalizes and padding as the encoder computes them:
\* on_transmit_complete, the padding, tx_packet_numbers.on_transmit.
Finish(finalizes, padding) ==
    /\ epc = "finish"
    /\ IF ~finalizes
       THEN /\ epc' = "done"
            /\ calls' = calls \o CompleteCalls
            /\ UNCHANGED <<buffer, tx_marked>>
       ELSE IF padding > 0 /\ ~EncodeFits(padding)
       THEN /\ epc' = "panic"
            /\ calls' = calls \o CompleteCalls
            /\ UNCHANGED <<buffer, tx_marked>>
       ELSE /\ epc' = "done"
            /\ buffer' = buffer \o Bytes("padding", padding)
            /\ calls' = calls \o FinalizeCalls(padding)
            /\ tx_marked' = Append(tx_marked, packet_number)
    /\ UNCHANGED <<encoder, capacity, minimum_len, packet_number, ack_elicitation,
                   did_send_ack, writes, stream_result, write_result,
                   reserve_result, accepted>>

\* ApplicationTransmission::encode after stream_manager.on_transmit.
AppFinish == encoder = "application" /\ Finish(AppFinalizes, AppPadding)

\* EarlyTransmission::encode after crypto_stream.tx.on_transmit.
EarlyFinish == encoder = "early" /\ Finish(EarlyFinalizes, EarlyPadding)

\* The min_size a producer may ask reserve_minimum_space_for_frame for.
MinSizes == 0..(MaxCapacity + 1)

EncodeNext ==
    \/ AckIdle /\ UNCHANGED <<wq_vars, fei_vars, timer_vars, time_vars, parse_vars>>
    \/ \E size \in FrameSizes : AckOnTransmit(size) /\ UNCHANGED <<wq_vars, fei_vars, timer_vars, time_vars, parse_vars>>
    \/ SecondOnTransmit /\ UNCHANGED <<wq_vars, fei_vars, timer_vars, time_vars, parse_vars>>
    \/ \E size \in FrameSizes, eliciting \in BOOLEAN :
           SecondWrite(size, eliciting) /\ UNCHANGED <<wq_vars, fei_vars, timer_vars, time_vars, parse_vars>>
    \/ \E min_size \in MinSizes : SecondReserve(min_size) /\ UNCHANGED <<wq_vars, fei_vars, timer_vars, time_vars, parse_vars>>
    \/ \E r \in {"ok", "err"} : SecondReturn(r) /\ UNCHANGED <<wq_vars, fei_vars, timer_vars, time_vars, parse_vars>>
    \/ AppFinish /\ UNCHANGED <<wq_vars, fei_vars, timer_vars, time_vars, parse_vars>>
    \/ EarlyFinish /\ UNCHANGED <<wq_vars, fei_vars, timer_vars, time_vars, parse_vars>>

\* One encode call of either encoder, for every behaviour of its producers.
EncodeSpec == EncodeInit /\ [][EncodeNext]_vars

\* ------------------------------------------------- frame exchange interests

\* Every FrameExchangeInterests value.
InterestValues == [transmission : BOOLEAN, delivery_notifications : BOOLEAN]

\* The encoders encoding_size_hint may be handed (its _encoder argument),
\* each named by its remaining capacity.
EncoderArgs == 0..MaxCapacity

\* usize::max
Max(a, b) == IF a >= b THEN a ELSE b

\* Mutant of Merge: the left operand wins.
MergeLeft(a, b) == a

\* FrameExchangeInterests' Add: each flag is set if set in either operand.
Merge(a, b) ==
    [transmission |-> a.transmission \/ b.transmission,
     delivery_notifications |-> a.delivery_notifications \/ b.delivery_notifications]

\* Mutant of AppFrameExchangeInterests: the encoder always wants to transmit.
AppInterestsOwnTransmission ==
    Merge([DefaultInterests EXCEPT !.transmission = TRUE], ack_interests)

\* ApplicationTransmission::frame_exchange_interests
AppFrameExchangeInterests ==
    Merge([DefaultInterests EXCEPT !.transmission = second_interests.transmission],
          ack_interests)

\* EarlyTransmission::frame_exchange_interests
EarlyFrameExchangeInterests ==
    Merge(Merge(DefaultInterests, ack_interests), second_interests)

\* Mutant of AppEncodingSizeHint: minimum_len is not raised to 1.
AppEncodingSizeHintNoBump ==
    IF AppFrameExchangeInterests.transmission THEN minimum_len ELSE 0

\* ApplicationTransmission::encoding_size_hint
AppEncodingSizeHint ==
    IF AppFrameExchangeInterests.transmission THEN Max(minimum_len, 1) ELSE 0

\* EarlyTransmission::encoding_size_hint
EarlyEncodingSizeHint ==
    IF EarlyFrameExchangeInterests.transmission THEN Max(minimum_len, 1) ELSE 0

\* The outer packet layer is about to query an encoder whose producers have
\* any interests.
InterestInit ==
    /\ WakeupInit
    /\ TimersIdle
    /\ TimeIdle /\ ParseIdle
    /\ encoder \in Encoders
    /\ capacity = 0
    /\ minimum_len \in MinimumLens
    /\ packet_number = 1
    /\ buffer = <<>>
    /\ ack_elicitation = FALSE
    /\ did_send_ack = FALSE
    /\ epc = "idle"
    /\ writes = 0
    /\ stream_result = "none"
    /\ calls = <<>>
    /\ tx_marked = <<>>
    /\ write_result = NotCalled
    /\ reserve_result = NotCalled
    /\ accepted = <<>>
    /\ ack_interests \in InterestValues
    /\ second_interests \in InterestValues
    /\ size_hint = NotCalled
    /\ aggregated = [tag |-> "not called", value |-> DefaultInterests]

\* PacketPayloadEncoder::encoding_size_hint(_encoder, minimum_len)
EncodingSizeHint(encoder_arg) ==
    /\ size_hint' = Usize(IF encoder = "application"
                          THEN AppEncodingSizeHint ELSE EarlyEncodingSizeHint)
    /\ UNCHANGED <<ack_interests, second_interests, aggregated>>

\* FrameExchangeInterestProvider::frame_exchange_interests of the encoder
FrameExchangeInterests ==
    /\ aggregated' = [tag |-> "returned",
                      value |-> IF encoder = "application"
                                THEN AppFrameExchangeInterests
                                ELSE EarlyFrameExchangeInterests]
    /\ UNCHANGED <<ack_interests, second_interests, size_hint>>

InterestNext ==
    \/ \E encoder_arg \in EncoderArgs :
           EncodingSizeHint(encoder_arg) /\ UNCHANGED <<wq_vars, enc_vars, timer_vars, time_vars, parse_vars>>
    \/ FrameExchangeInterests /\ UNCHANGED <<wq_vars, enc_vars, timer_vars, time_vars, parse_vars>>

\* The interest queries of either encoder, for every interest of its producers.
InterestSpec == InterestInit /\ [][InterestNext]_vars

\* encoding_size_hint, frame_exchange_interests and encode take the encoder
\* by (mutable) reference: the queries run before or after an encode call,
\* never within it.
QueryNext == epc \in {"idle", "done"} /\ InterestNext

PayloadEncoderInit == EncodeInit \/ InterestInit

PayloadEncoderNext == EncodeNext \/ QueryNext

\* Both uses of a PacketPayloadEncoder: it is queried for its interests and
\* its size hint, or it encodes one packet and is queried afterwards.
PayloadEncoderSpec == PayloadEncoderInit /\ [][PayloadEncoderNext]_vars

\* --------------------------------------------------------- connection timers

\* The deadlines a timer is armed with.
Deadlines == 1..MaxDeadline

\* The three timers of ConnectionTimers.
TimerNames == {"close_timer", "peer_idle_timer", "local_idle_timer"}

\* No other component is in use while the timers are.
TimerInit ==
    /\ WakeupInit
    /\ EncoderIdle
    /\ InterestsIdle
    /\ TimeIdle /\ ParseIdle
    /\ TimersIdle

\* VirtualTimer::iter: the deadline of an armed timer, nothing otherwise.
VirtualTimerIter(timer) == IF timer = NoDeadline THEN <<>> ELSE <<timer>>

\* Mutant of ConnectionTimersIter: only the close timer is looked at.
IterCloseOnly == VirtualTimerIter(close_timer)

\* Mutant of ConnectionTimersIter: the peer idle timer comes before the
\* local idle timer.
IterPeerBeforeLocal ==
    VirtualTimerIter(close_timer)
        \o VirtualTimerIter(peer_idle_timer)
        \o VirtualTimerIter(local_idle_timer)

\* ConnectionTimers::iter: the chain of the three timers' iterators.
ConnectionTimersIter ==
    VirtualTimerIter(close_timer)
        \o VirtualTimerIter(local_idle_timer)
        \o VirtualTimerIter(peer_idle_timer)

\* A timer field is armed with a deadline, or disarmed (deadline NoDeadline).
SetTimer(name, deadline) ==
    /\ close_timer' = IF name = "close_timer" THEN deadline ELSE close_timer
    /\ peer_idle_timer' =
           IF name = "peer_idle_timer" THEN deadline ELSE peer_idle_timer
    /\ local_idle_timer' =
           IF name = "local_idle_timer" THEN deadline ELSE local_idle_timer
    /\ UNCHANGED iterated

\* The connection arms one of its timers.
Arm(name, deadline) == SetTimer(name, deadline)

\* The connection disarms one of its timers.
Disarm(name) == SetTimer(name, NoDeadline)

\* ConnectionTimers::iter(), read to its end.
Iter ==
    /\ iterated' = ConnectionTimersIter
    /\ UNCHANGED <<close_timer, peer_idle_timer, local_idle_timer>>

TimerNext ==
    \/ \E name \in TimerNames, deadline \in Deadlines :
           Arm(name, deadline) /\ UNCHANGED <<wq_vars, enc_vars, fei_vars, time_vars, parse_vars>>
    \/ \E name \in TimerNames :
           Disarm(name) /\ UNCHANGED <<wq_vars, enc_vars, fei_vars, time_vars, parse_vars>>
    \/ Iter /\ UNCHANGED <<wq_vars, enc_vars, fei_vars, time_vars, parse_vars>>

\* The timers of one connection, armed, disarmed and iterated in any order.
TimerSpec == TimerInit /\ [][TimerNext]_vars

\* ----------------------------------------------------------------- timestamps

\* core::u64::MAX, at the width of the model.
U64Max == 2^MicrosBits - 1

\* The values of Timestamp: a NonZeroU64 count of microseconds.
Timestamps == 1..U64Max

\* Duration::MAX in nanoseconds: a Duration counts seconds in a u64, so it
\* reaches beyond what a Timestamp can hold (here, twice as far).
DurationMax == 2 * (U64Max + 1) * NanosPerMicro - 1

\* The values of Duration, in nanoseconds.
Durations == 0..DurationMax

\* The operation panicked.
Panic == [tag |-> "panic", value |-> 0]
\* A Timestamp an operation returned, by its microseconds.
Stamp(micros) == [tag |-> "Timestamp", value |-> micros]
\* A Duration an operation returned, by its nanoseconds.
Dur(nanos) == [tag |-> "Duration", value |-> nanos]

\* Timestamp::as_duration_impl: Duration::from_micros(self.0.get())
AsDurationImpl(t) == t * NanosPerMicro

\* Duration::as_micros
AsMicros(d) == d \div NanosPerMicro

\* Timestamp::from_duration_impl: whether its debug_assert! fails.
FromDurationPanics(d) == build = "debug" /\ AsMicros(d) > U64Max

\* Mutant of FromDurationImpl: a count of 0 is kept.
FromDurationNoBump(d) == AsMicros(d) % (U64Max + 1)

\* Timestamp::from_duration_impl: the microseconds of the Timestamp, the
\* count cast to u64 and 0 replaced by ONE_MICROSECOND.
FromDurationImpl(d) ==
    LET micros == AsMicros(d) % (U64Max + 1)
    IN  IF micros = 0 THEN 1 ELSE micros

\* Timestamp::from_duration_impl as a call: it panics or returns.
FromDurationCall(d) ==
    IF FromDurationPanics(d) THEN Panic ELSE Stamp(FromDurationImpl(d))

\* Duration::checked_add
DurationCheckedAdd(a, b) == IF a + b > DurationMax THEN None ELSE Some(a + b)

\* Duration::checked_sub
DurationCheckedSub(a, b) == IF b > a THEN None ELSE Some(a - b)

\* Option::map(Self::from_duration_impl)
MapFromDuration(opt) ==
    IF opt = None THEN None
    ELSE IF FromDurationPanics(opt.value) THEN Panic
    ELSE Some(FromDurationImpl(opt.value))

\* Timestamp::checked_add
CheckedAdd(t, d) == MapFromDuration(DurationCheckedAdd(AsDurationImpl(t), d))

\* Timestamp::checked_sub
CheckedSub(t, d) == MapFromDuration(DurationCheckedSub(AsDurationImpl(t), d))

\* Timestamp::saturating_duration_since: the nanoseconds of the Duration.
\* The difference is never above self, so from_duration_impl cannot panic.
SaturatingDurationSince(t, earlier) ==
    LET r == CheckedSub(t, AsDurationImpl(earlier))
    IN  IF r = None THEN 0 ELSE AsDurationImpl(r.value)

\* impl Add<Duration> for Timestamp: Duration's + panics on overflow.
TimestampAdd(t, d) ==
    IF AsDurationImpl(t) + d > DurationMax THEN Panic
    ELSE FromDurationCall(AsDurationImpl(t) + d)

\* Mutant of TimestampSubDuration: the Duration is not subtracted.
TimestampSubNothing(t, d) == Stamp(t)

\* impl Sub<Duration> for Timestamp: Duration's - panics on underflow.
TimestampSubDuration(t, d) ==
    IF d > AsDurationImpl(t) THEN Panic
    ELSE FromDurationCall(AsDurationImpl(t) - d)

\* impl Sub for Timestamp: the Duration between two Timestamps.
TimestampSub(t, rhs) ==
    IF rhs > t THEN Panic ELSE Dur(AsDurationImpl(t) - AsDurationImpl(rhs))

\* A time source made a Timestamp; operations with one Duration follow.
TimeInit ==
    /\ WakeupInit
    /\ EncoderIdle
    /\ InterestsIdle
    /\ TimersIdle
    /\ ParseIdle
    /\ build \in {"debug", "release"}
    /\ initial \in Timestamps
    /\ duration \in Durations
    /\ ts = initial
    /\ ops = <<>>
    /\ returned = NotCalled

\* Another operation can be applied: none has panicked.
CanApply == Len(ops) < MaxOps /\ returned # Panic

\* An operation that returns a Timestamp stored over ts (+=, -=, a new
\* Timestamp of a time source); a panic leaves ts as it was.
Assign(op, r) ==
    /\ CanApply
    /\ ops' = Append(ops, op)
    /\ returned' = r
    /\ ts' = IF r = Panic THEN ts ELSE r.value
    /\ UNCHANGED <<build, initial, duration>>

\* An operation that returns a value and leaves ts alone.
Query(op, r) ==
    /\ CanApply
    /\ ops' = Append(ops, op)
    /\ returned' = r
    /\ UNCHANGED <<build, initial, duration, ts>>

\* Timestamp::from_duration(duration)
FromDuration == Assign("from_duration", FromDurationCall(duration))

\* impl AddAssign<Duration>: *self = *self + other
AddAssign == Assign("add_assign", TimestampAdd(ts, duration))

\* impl SubAssign<Duration>: *self = *self - other
SubAssign == Assign("sub_assign", TimestampSubDuration(ts, duration))

\* ts.checked_add(duration)
CheckedAddCall == Query("checked_add", CheckedAdd(ts, duration))

\* ts.checked_sub(duration)
CheckedSubCall == Query("checked_sub", CheckedSub(ts, duration))

\* ts - initial, or initial - ts when reversed
SubCall(reversed) ==
    Query("sub", IF reversed THEN TimestampSub(initial, ts)
                 ELSE TimestampSub(ts, initial))

\* ts.saturating_duration_since(initial), or the reverse
SaturatingDurationSinceCall(reversed) ==
    Query("saturating_duration_since",
          Dur(IF reversed THEN SaturatingDurationSince(initial, ts)
              ELSE SaturatingDurationSince(ts, initial)))

TimeNext ==
    \/ FromDuration /\ UNCHANGED <<wq_vars, enc_vars, fei_vars, timer_vars, parse_vars>>
    \/ AddAssign /\ UNCHANGED <<wq_vars, enc_vars, fei_vars, timer_vars, parse_vars>>
    \/ SubAssign /\ UNCHANGED <<wq_vars, enc_vars, fei_vars, timer_vars, parse_vars>>
    \/ CheckedAddCall /\ UNCHANGED <<wq_vars, enc_vars, fei_vars, timer_vars, parse_vars>>
    \/ CheckedSubCall /\ UNCHANGED <<wq_vars, enc_vars, fei_vars, timer_vars, parse_vars>>
    \/ \E reversed \in BOOLEAN :
           SubCall(reversed) /\ UNCHANGED <<wq_vars, enc_vars, fei_vars, timer_vars, parse_vars>>
    \/ \E reversed \in BOOLEAN :
           SaturatingDurationSinceCall(reversed)
               /\ UNCHANGED <<wq_vars, enc_vars, fei_vars, timer_vars, parse_vars>>

\* Timestamp arithmetic from every Timestamp with every Duration, in a
\* build with and in a build without debug assertions.
TimeSpec == TimeInit /\ [][TimeNext]_vars

\* ------------------------------------------------------------ request parser

\* Bytes are u8 values and chars are code points; the ASCII codes the parser
\* names: b"GET /"
Header == <<71, 69, 84, 32, 47>>
\* b'0'..=b'9'
Digits == 48..57
\* b'a'..=b'z'
Lower == 97..122
\* b'A'..=b'Z'
Upper == 65..90
\* b'.', b'/' and b'-'
Punctuation == {46, 47, 45}
\* b'\n' and b'\r'
LineEnds == {10, 13}

\* The bytes requests are made of, one or more for each arm of the parser's
\* match: those of "GET /" (upper case letters, ' ' and '/'), 'a', '\r', and
\* '!', which no request may hold.
Alphabet == {71, 69, 84, 32, 47, 97, 13, 33}

\* The byte strings of up to MaxTail bytes.
Tails == UNION {[1..n -> Alphabet] : n \in 0..MaxTail}

\* The requests a peer sends: some (or none, or all) of "GET /", then any
\* bytes. They include the well-formed requests, the truncated ones and
\* those with a wrong byte anywhere.
Requests ==
    {SubSeq(Header, 1, k) \o tail : k \in 0..Len(Header), tail \in Tails}

\* chunks.iter().flat_map(|chunk| chunk.iter().cloned()): the bytes of the
\* chunks, in order.
RECURSIVE Flatten(_)
Flatten(cs) == IF cs = <<>> THEN <<>> ELSE Head(cs) \o Flatten(Tail(cs))

\* The expect! calls have all matched.
Expected == [tag |-> "expected", has_request |-> FALSE, char |-> NoChar]

\* expect!(b'G') ... expect!(b'/'), from the i-th on: the value returned by
\* the first that returns, or Expected.
RECURSIVE Expect(_, _, _)
Expect(bytes, i, is_open) ==
    IF i > Len(Header) THEN Expected
    ELSE IF i > Len(bytes)
         THEN (IF is_open THEN ParseOk(FALSE) ELSE ParseErr(NoChar))
    ELSE IF bytes[i] = Header[i] THEN Expect(bytes, i + 1, is_open)
    ELSE ParseErr(NoChar)

\* c as char, of a u8: the code point of the same value.
AsChar(c) == c

\* Mutant of ClearedPath: the path of an earlier call is kept.
KeptPath(p) == p

\* path.clear()
ClearedPath(p) == <<>>

\* The loop of parse_h09_request from the i-th byte on, with the path p so
\* far: the value returned and the path left.
RECURSIVE PathLoop(_, _, _, _)
PathLoop(bytes, i, p, is_open) ==
    IF i > Len(bytes) THEN [parsed |-> ParseOk(~is_open), path |-> p]
    ELSE LET c == bytes[i]
         IN  IF c \in Digits \cup Lower \cup Upper
             THEN PathLoop(bytes, i + 1, Append(p, AsChar(c)), is_open)
             ELSE IF c \in Punctuation
             THEN PathLoop(bytes, i + 1, Append(p, c), is_open)
             ELSE IF c \in LineEnds
             THEN [parsed |-> ParseOk(TRUE), path |-> p]
             ELSE [parsed |-> ParseErr(AsChar(c)), path |-> p]

\* parse_h09_request(chunks, path, is_open): the value returned and the path.
ParseH09Request(cs, p, is_open) ==
    LET bytes == Flatten(cs)
        e == Expect(bytes, 1, is_open)
    IN  IF e # Expected THEN [parsed |-> e, path |-> p]
        ELSE PathLoop(bytes, Len(Header) + 1, ClearedPath(p), is_open)

\* A peer is about to send a request; nothing was received or parsed.
ParseInit ==
    /\ WakeupInit
    /\ EncoderIdle
    /\ InterestsIdle
    /\ TimersIdle
    /\ TimeIdle
    /\ request \in Requests
    /\ chunks = <<>>
    /\ path = <<>>
    /\ partial = <<>>
    /\ parsed = ParseNotCalled
    /\ stream = "idle"

\* The bytes received so far.
Delivered == Flatten(chunks)

\* The bytes of the request not received yet.
Remaining == SubSeq(request, Len(Delivered) + 1, Len(request))

\* parse_h09_request(&chunks[..idx], &mut path, true), its result dropped,
\* before the next chunk, of n bytes, joins the prefix.
ParseOpen(n) ==
    /\ stream # "closed"
    /\ Len(chunks) < MaxChunks
    /\ n <= Len(Remaining)
    /\ LET r == ParseH09Request(chunks, path, TRUE)
       IN  /\ parsed' = r.parsed
           /\ path' = r.path
           /\ partial' = r.path
    /\ chunks' = Append(chunks, SubSeq(Remaining, 1, n))
    /\ stream' = "open"
    /\ UNCHANGED request

\* parse_h09_request(&chunks, &mut path, false): the stream has ended and
\* every chunk was received.
ParseClosed ==
    /\ stream # "closed"
    /\ Delivered = request
    /\ LET r == ParseH09Request(chunks, path, FALSE)
       IN  /\ parsed' = r.parsed
           /\ path' = r.path
    /\ stream' = "closed"
    /\ UNCHANGED <<request, chunks, partial>>

ParseNext ==
    \/ \E n \in 0..(Len(Header) + MaxTail) :
           ParseOpen(n) /\ UNCHANGED <<wq_vars, enc_vars, fei_vars, timer_vars, time_vars>>
    \/ ParseClosed /\ UNCHANGED <<wq_vars, enc_vars, fei_vars, timer_vars, time_vars>>

\* Every request, received in every sequence of chunks, empty ones too, and
\* parsed on every prefix of the chunks before it is parsed whole.
ParseSpec == ParseInit /\ [][ParseNext]_vars

\* ------------------------------------------------------ claims: wakeup queue

\* A step of poll_pending_wakeups.
PollStep == \E sq \in SwapQueues, w \in Wakers : PollPendingWakeups(sq, w)

\* Handles that hold a captured waker they have not notified yet.
AboutToNotify == {h \in Handles : pc[h] = "notify" /\ maybe_waker[h] # NoWaker}

\* C1: no missed wakeup. Whenever the reactor sleeps after an empty poll and
\* the pending list is not empty, the wakeup() that pushed first after that
\* poll holds the waker the reactor sleeps on and is about to notify it.
C1_NoMissedWakeup ==
    (blocked_on # NoWaker /\ woken_connections # <<>>) =>
        \E h \in AboutToNotify :
            /\ HandleId(h) = Head(woken_connections)
            /\ WillWake(maybe_waker[h], blocked_on)

\* C1 witness: the reactor sleeps, an id is pending, the notification is due.
C1_Witness ==
    /\ blocked_on # NoWaker
    /\ woken_connections # <<>>
    /\ AboutToNotify # {}

\* C2 as stated: when handles called wakeup() and pushed ids between two
\* consecutive drains, and every call has returned, exactly one notification
\* was made in that window.
C2_ExactlyOneNotification ==
    [][(PollStep /\ drained /\ enqueued # <<>> /\ \A h \in Handles : pc[h] = "idle")
           => notified_since_drain = 1]_vars

\* C2 as amended: in every drain window the stored waker is handed out for
\* notification exactly once if a waker is stored and at least one wakeup()
\* pushed its id, and not at all otherwise, however many handles pushed.
C2_OneCapturePerWindow ==
    captured_since_drain = IF waker # NoWaker /\ enqueued # <<>> THEN 1 ELSE 0

\* C2 witness: two distinct handles pushed in one window after an earlier
\* drain, one notification was made.
C2_Witness ==
    /\ drained
    /\ Len(enqueued) = 2
    /\ enqueued[1] # enqueued[2]
    /\ captured_since_drain = 1
    /\ notified_since_drain = 1
    /\ \A h \in Handles : pc[h] = "idle"

\* C3: wakeup() calls on one handle with no wakeup_handled() in between push
\* its id at most once, across drains too; the pending list holds the id at
\* most once more than it did at the handle's last wakeup_handled().
C3_HandleIdempotence ==
    \A h \in Handles :
        /\ enq_since_handled[h] <= 1
        /\ Count(HandleId(h), woken_connections) <= stale[h] + enq_since_handled[h]

\* C3 witness: the id was pushed and drained, the latch is still set, so
\* every further wakeup() of the idle handle is one of the claim's calls.
C3_Witness ==
    \E h \in Handles :
        /\ pc[h] = "idle"
        /\ wakeup_queued[h]
        /\ enq_since_handled[h] = 1
        /\ Count(HandleId(h), result) = 1
        /\ woken_connections # <<>>

\* C4: drain completeness. A poll returns exactly the ids pushed since the
\* previous poll and leaves the pending list empty, whatever the swap buffer.
C4_DrainCompleteness ==
    [][PollStep => (result' = enqueued /\ woken_connections' = <<>>)]_vars

\* C4 witness: a poll that was handed a non-empty buffer returned ids.
C4_Witness ==
    /\ swap_dirty
    /\ result # <<>>
    /\ woken_connections = <<>>
    /\ enqueued = <<>>

\* C5: only wakeup_handled() clears a latch; while the latch is set the idle
\* handle's wakeup() starts no push; a handle that pushed nothing since its
\* last wakeup_handled() has a clear latch, so its next wakeup() pushes.
C5_LatchOnlyClearedByHandled ==
    [][\A h \in Handles :
          /\ (wakeup_queued[h] /\ ~wakeup_queued'[h]) => WakeupHandled(h)
          /\ (wakeup_queued[h] /\ pc[h] = "idle") =>
                 /\ pc'[h] = "idle"
                 /\ maybe_waker'[h] = NoWaker
                 /\ Count(HandleId(h), woken_connections')
                        <= Count(HandleId(h), woken_connections)
          /\ (pc'[h] = "idle" /\ enq_since_handled'[h] = 0) => ~wakeup_queued'[h]]_vars

\* C5 witness: an id pushed again after a drain and a wakeup_handled().
C5_Witness ==
    \E h \in Handles :
        /\ Count(HandleId(h), result) = 1
        /\ Count(HandleId(h), woken_connections) = 1
        /\ stale[h] = 0
        /\ wakeup_queued[h]

\* Notifications captured since the last drain and not made yet: the first
\* wakeup() to push in the window captured the waker and still holds it.
FreshDue ==
    IF /\ captured_since_drain = 1
       /\ \E h \in AboutToNotify : HandleId(h) = Head(enqueued)
    THEN 1 ELSE 0

\* C6 as stated: never two notifications that were captured or made since
\* the last drain.
C6_OneSignalInFlight ==
    FreshDue + notified_since_drain <= 1

\* C6 as amended: at most one notification is captured per drain window,
\* and only while the in-progress flag is set.
C6_OneCaptureInFlight ==
    /\ captured_since_drain <= 1
    /\ captured_since_drain = 1 => wakeup_in_progress

\* C6 witness: a notification captured before the last drain is still due
\* when the next one is captured.
C6_Witness ==
    /\ Cardinality(AboutToNotify) = 2
    /\ captured_since_drain = 1

\* C7: a thread that notifies the waker does not hold the queue lock, the
\* lock has at most one holder, and it is held only by a wakeup() whose next
\* step (push and unlock) is enabled, so no call waits for ever.
C7_LockNotHeldWhileWaking ==
    /\ \A h \in Handles : pc[h] = "notify" => h \notin lock
    /\ \A h \in Handles : pc[h] = "locked" => lock = {h}
    /\ lock = {} \/ \E h \in Handles : pc[h] = "locked" /\ lock = {h}

\* C7 witness: a handle notifies the sleeping reactor while the lock is free.
C7_Witness ==
    \E h \in AboutToNotify :
        /\ lock = {}
        /\ blocked_on # NoWaker
        /\ WillWake(maybe_waker[h], blocked_on)

\* C8: a poll returns the ids in the order their wakeup() calls took the lock.
C8_FifoOrder ==
    [][PollStep => result' = lock_order]_vars

\* C8 witness: two ids returned, the higher one first.
C8_Witness ==
    /\ Len(result) = 2
    /\ result[1] > result[2]

\* C9: a poll stores a waker that wakes the caller's task (keeping a stored
\* one that already does) iff nothing was pending; otherwise it leaves the
\* stored waker alone. Either way it clears the in-progress flag.
C9_WakerStoredIffEmpty ==
    [][\A sq \in SwapQueues, w \in Wakers :
          PollPendingWakeups(sq, w) =>
              /\ ~wakeup_in_progress'
              /\ IF woken_connections = <<>>
                 THEN /\ waker' # NoWaker
                      /\ WillWake(waker', w)
                      /\ (waker # NoWaker /\ WillWake(waker, w)) => waker' = waker
                 ELSE waker' = waker]_vars

\* C9 witness: a non-empty poll cleared the flag and kept the stored waker.
C9_Witness ==
    /\ result # <<>>
    /\ waker # NoWaker
    /\ ~wakeup_in_progress
    /\ woken_connections = <<>>
    /\ blocked_on = NoWaker
    /\ \A h \in Handles : pc[h] = "idle"

\* ----------------------------------------------------------- claims: encoders

\* The bytes the producers wrote.
ProducerBytes == SelectSeq(buffer, LAMBDA b : b # "padding")

RECURSIVE FrameBytes(_)
FrameBytes(fs) ==
    IF fs = <<>> THEN <<>>
    ELSE Bytes(Head(fs).frame, Head(fs).size) \o FrameBytes(Tail(fs))

\* The written length: the bytes of the frames write_frame accepted.
WrittenLength == Len(FrameBytes(accepted))

\* Whether encode has run to its end (returned, or stopped in the buffer).
Ended == epc \in {"done", "panic"}

\* Number of on_transmit_complete calls encode made.
CompleteCount == Count("ack_manager.on_transmit_complete", calls)

C12_NeverExceedsCapacity ==
    /\ Len(buffer) <= capacity
    /\ (epc = "finish" /\ buffer # <<>>) =>
           SaturatingSub(minimum_len, Len(buffer)) <= RemainingCapacity

\* C14: on_transmit_complete is called once if the ack manager's
\* on_transmit returned true and never otherwise, and only after the
\* second producer's on_transmit was called and has returned.
C14_CompleteOnceAfterSecond ==
    /\ CompleteCount = IF Ended /\ did_send_ack THEN 1 ELSE 0
    /\ CompleteCount = 1 =>
           /\ stream_result # "none"
           /\ \E i, j \in DOMAIN calls :
                  /\ i < j
                  /\ calls[i] = SecondProducer(encoder) \o ".on_transmit"
                  /\ calls[j] = "ack_manager.on_transmit_complete"

\* C14 witness: the ack manager wrote, the second producer failed, and
\* on_transmit_complete was called.
C14_Witness ==
    /\ epc = "done"
    /\ did_send_ack
    /\ stream_result = "err"
    /\ CompleteCount = 1

\* C15: write_frame returns None iff the frame's size exceeds the remaining
\* capacity; then the buffer and the accumulator are unchanged; otherwise
\* the buffer grows by the frame's size and the packet number is returned.
C15_WriteFrameContract ==
    [][\A size \in FrameSizes, eliciting \in BOOLEAN :
          (SecondWrite(size, eliciting) \/ (~eliciting /\ AckOnTransmit(size))) =>
              /\ (write_result' = None) <=> (size > capacity - Len(buffer))
              /\ (write_result' = None) =>
                     (buffer' = buffer /\ ack_elicitation' = ack_elicitation)
              /\ (write_result' # None) =>
                     /\ Len(buffer') = Len(buffer) + size
                     /\ SubSeq(buffer', 1, Len(buffer)) = buffer
                     /\ write_result' = Some(packet_number)]_vars

\* C15 witness: the second producer's latest frame was accepted and filled
\* the buffer to its capacity.
C15_Witness ==
    /\ epc = "writing"
    /\ writes > 0
    /\ accepted # <<>>
    /\ accepted[Len(accepted)].frame = "data"
    /\ write_result = Some(packet_number)
    /\ Len(buffer) = capacity

\* Whether a frame write_frame accepted so far is ack-eliciting.
ElicitingAccepted == \E i \in DOMAIN accepted : accepted[i].eliciting

\* C16: the accumulator is the OR of the classifications of the frames
\* accepted so far, and it never goes back from eliciting to non-eliciting.
C16_AckElicitationIsOr ==
    [][/\ ack_elicitation = ElicitingAccepted
       /\ ack_elicitation' = ElicitingAccepted'
       /\ ack_elicitation => ack_elicitation']_vars

\* C16 witness: a non-eliciting frame was accepted after an eliciting one
\* and the accumulator still says eliciting.
C16_Witness ==
    /\ Len(accepted) >= 2
    /\ accepted[1].eliciting
    /\ ~accepted[Len(accepted)].eliciting
    /\ ack_elicitation

\* C17: reserve_minimum_space_for_frame fails iff the remaining capacity is
\* below min_size, returns the whole remaining capacity otherwise, and
\* leaves the buffer, its capacity and the accumulator alone.
C17_ReserveContract ==
    [][\A min_size \in MinSizes :
          SecondReserve(min_size) =>
              /\ (reserve_result' = Err) <=> (capacity - Len(buffer) < min_size)
              /\ (reserve_result' # Err) =>
                     reserve_result' = Ok(capacity - Len(buffer))
              /\ UNCHANGED <<buffer, capacity, ack_elicitation>>]_vars

\* C17 witness: a call returned all of a non-zero remaining capacity, and a
\* later write_frame filled the buffer to its capacity.
C17_Witness ==
    /\ reserve_result.tag = "Ok"
    /\ reserve_result.value > 0
    /\ write_result = Some(packet_number)
    /\ Len(buffer) = capacity

\* C18: after an error of the second producer the accepted frames stay in
\* the buffer, and encode ends as it does without the error:
\* on_transmit_complete iff the ack manager wrote, padding up to
\* minimum_len and the packet number marked iff the buffer is not empty.
C18_ErrorDoesNotAbort ==
    stream_result = "err" =>
        /\ ProducerBytes = FrameBytes(accepted)
        /\ Ended => CompleteCount = IF did_send_ack THEN 1 ELSE 0
        /\ epc = "done" =>
               /\ Len(buffer) = IF accepted = <<>> THEN 0
                                ELSE Max(WrittenLength, minimum_len)
               /\ tx_marked = IF accepted = <<>> THEN <<>> ELSE <<packet_number>>

\* C18 witness: the second producer wrote a frame and failed; the ack was
\* completed, the packet padded to minimum_len and marked.
C18_Witness ==
    /\ epc = "done"
    /\ stream_result = "err"
    /\ did_send_ack
    /\ \E i \in DOMAIN accepted : accepted[i].frame = "data"
    /\ CompleteCount = 1
    /\ minimum_len > WrittenLength
    /\ Len(buffer) = minimum_len
    /\ tx_marked = <<packet_number>>

\* ------------------------------------------------------- claims: interests

\* The transmission flag of the encoder's aggregated interests.
AggregatedTransmission ==
    IF encoder = "application"
    THEN AppFrameExchangeInterests.transmission
    ELSE EarlyFrameExchangeInterests.transmission

\* C13: encoding_size_hint returns 0 iff the aggregated transmission flag is
\* false and max(minimum_len, 1) otherwise, for both encoders and whatever
\* encoder it is handed.
C13_SizeHint ==
    [][\A encoder_arg \in EncoderArgs :
          EncodingSizeHint(encoder_arg) =>
              /\ size_hint'.tag = "usize"
              /\ (size_hint'.value = 0) <=> ~AggregatedTransmission
              /\ AggregatedTransmission =>
                     size_hint'.value = Max(minimum_len, 1)]_vars

\* C13 witness: a hint of 1 was returned for a minimum_len of 0.
C13_Witness ==
    /\ size_hint = Usize(1)
    /\ minimum_len = 0

\* C19: the aggregated transmission flag is set iff the ack manager or the
\* second producer reports transmission interest.
C19_TransmissionIffProducer ==
    /\ AggregatedTransmission <=>
           (ack_interests.transmission \/ second_interests.transmission)
    /\ aggregated.tag = "returned" =>
           (aggregated.value.transmission <=>
                (ack_interests.transmission \/ second_interests.transmission))

\* C19 witness: the aggregate was returned without the transmission flag
\* although both producers report another interest.
C19_Witness ==
    /\ aggregated.tag = "returned"
    /\ ~aggregated.value.transmission
    /\ ack_interests.delivery_notifications
    /\ second_interests.delivery_notifications

\* C20: the merge is associative and commutative with the all-false value
\* as its identity, each flag being the OR of the operands' flags, so the
\* encoders' aggregates do not depend on the order of the merges.
C20_MergeAlgebra ==
    /\ \A a, b, c \in InterestValues :
           /\ Merge(Merge(a, b), c) = Merge(a, Merge(b, c))
           /\ Merge(a, b) = Merge(b, a)
           /\ Merge(a, DefaultInterests) = a
           /\ Merge(a, b).transmission = (a.transmission \/ b.transmission)
           /\ Merge(a, b).delivery_notifications =
                  (a.delivery_notifications \/ b.delivery_notifications)
    /\ EarlyFrameExchangeInterests =
           Merge(second_interests, Merge(ack_interests, DefaultInterests))
    /\ AppFrameExchangeInterests =
           Merge(ack_interests,
                 [DefaultInterests EXCEPT !.transmission = second_interests.transmission])

\* C20 witness: the early encoder returned the aggregate of two producers
\* with different, non-default interests.
C20_Witness ==
    /\ encoder = "early"
    /\ aggregated.tag = "returned"
    /\ ack_interests # DefaultInterests
    /\ second_interests # DefaultInterests
    /\ ack_interests # second_interests
    /\ aggregated.value = Merge(second_interests, ack_interests)

\* ---------------------------------------------------------- claims: timers

\* The timers that hold a deadline.
Armed == {name \in TimerNames :
             (CASE name = "close_timer" -> close_timer
                [] name = "peer_idle_timer" -> peer_idle_timer
                [] name = "local_idle_timer" -> local_idle_timer) # NoDeadline}

\* Number of timers that hold the deadline d.
Holding(d) ==
    (IF close_timer = d THEN 1 ELSE 0)
        + (IF peer_idle_timer = d THEN 1 ELSE 0)
        + (IF local_idle_timer = d THEN 1 ELSE 0)

\* C21: iter() yields the deadline of every armed timer once per timer
\* that holds it, nothing for a timer that is not armed, and changes no
\* timer.
C21_IterYieldsArmed ==
    [][Iter =>
          /\ Len(iterated') = Cardinality(Armed)
          /\ \A d \in Deadlines : Count(d, iterated') = Holding(d)
          /\ UNCHANGED <<close_timer, peer_idle_timer, local_idle_timer>>]_vars

\* C21 witness: after arming and disarming, iter() yielded the two
\* deadlines of the two timers still armed.
C21_Witness ==
    /\ close_timer = NoDeadline
    /\ peer_idle_timer # NoDeadline
    /\ local_idle_timer # NoDeadline
    /\ Len(iterated) = 2
    /\ iterated = ConnectionTimersIter

\* C22 as stated: iter() yields the armed deadlines in the order close
\* timer, peer idle timer, local idle timer.
C22_ClosePeerLocalOrder ==
    [][Iter =>
          iterated' = VirtualTimerIter(close_timer)
                          \o VirtualTimerIter(peer_idle_timer)
                          \o VirtualTimerIter(local_idle_timer)]_vars

\* C22 as amended: iter() yields the armed deadlines in the order close
\* timer, local idle timer, peer idle timer.
C22_CloseLocalPeerOrder ==
    [][Iter =>
          iterated' = VirtualTimerIter(close_timer)
                          \o VirtualTimerIter(local_idle_timer)
                          \o VirtualTimerIter(peer_idle_timer)]_vars

\* C22 witness: the idle timers hold different deadlines and iter()
\* yielded the local one first.
C22_Witness ==
    /\ local_idle_timer # NoDeadline
    /\ peer_idle_timer # NoDeadline
    /\ local_idle_timer # peer_idle_timer
    /\ close_timer = NoDeadline
    /\ iterated = <<local_idle_timer, peer_idle_timer>>

\* ------------------------------------------------------ claims: timestamps

\* Whether initial + duration is a Timestamp: its microseconds fit the count.
SumRepresentable == AsMicros(AsDurationImpl(initial) + duration) <= U64Max

\* ts is (initial + duration) - duration.
RoundTripped == ops = <<"add_assign", "sub_assign">> /\ returned # Panic

\* C23 as stated: for every Timestamp and every Duration, of whatever
\* granularity, whose sum does not overflow, adding and then subtracting
\* the Duration gives the Timestamp back.
C23_RoundTrip ==
    (RoundTripped /\ SumRepresentable) => ts = initial

\* C23 as amended: the round trip gives the Timestamp back for every
\* Duration that is a whole number of microseconds.
C23_RoundTripWholeMicros ==
    (RoundTripped /\ SumRepresentable /\ duration % NanosPerMicro = 0)
        => ts = initial

\* C23 witness: a round trip with a Duration of whole microseconds, not
\* zero, from a Timestamp later than 1us.
C23_Witness ==
    /\ RoundTripped
    /\ SumRepresentable
    /\ duration > 0
    /\ duration % NanosPerMicro = 0
    /\ initial > 1
    /\ ts = initial

\* C24 as stated: checked_add returns None iff the sum is beyond the
\* range of a Timestamp, and Some of exactly the sum otherwise; it never
\* returns a wrapped value (and it returns).
C24_CheckedAddNoneIffOverflow ==
    [][CheckedAddCall =>
          LET sum == AsMicros(AsDurationImpl(ts) + duration)
          IN  /\ (returned' = None) <=> (sum > U64Max)
              /\ sum <= U64Max => returned' = Some(sum)]_vars

\* C25 as stated: a.saturating_duration_since(b) is the elapsed Duration
\* a - b when b is not later than a, and zero when b is later.
C25_SaturatingDurationSince ==
    [][\A reversed \in BOOLEAN :
          SaturatingDurationSinceCall(reversed) =>
              LET a == IF reversed THEN initial ELSE ts
                  b == IF reversed THEN ts ELSE initial
              IN  returned' = Dur(IF b <= a
                                  THEN AsDurationImpl(a) - AsDurationImpl(b)
                                  ELSE 0)]_vars

\* C26: every Timestamp an operation stores or returns has a count of
\* microseconds above 0 (and within the u64).
C26_NonZeroMagnitude ==
    /\ ts \in Timestamps
    /\ returned.tag \in {"Timestamp", "Some"} => returned.value \in Timestamps

\* C26 witness: checked_sub took the whole of a Timestamp later than 1us
\* away; the count computed is 0 and the Timestamp returned is 1us.
C26_Witness ==
    /\ ops = <<"checked_sub">>
    /\ ts > 1
    /\ duration = AsDurationImpl(ts)
    /\ returned = Some(1)

\* ------------------------------------------- claims: wakeup queue, duplicates

\* C27 as stated: whatever the interleaving of wakeup(), wakeup_handled()
\* and poll_pending_wakeups, a poll result holds a handle's id at most once.
C27_ResultHoldsIdAtMostOnce ==
    \A h \in Handles : Count(HandleId(h), result) <= 1

\* C27 as amended: a poll result holds at most once the id of every handle
\* whose wakeup_handled() calls since the previous poll, if any, found the
\* id drained (no copy of it pending).
C27_ResultHoldsDrainedIdOnce ==
    [][PollStep =>
          \A h \in Handles :
              stale[h] = 0 => Count(HandleId(h), result') <= 1]_vars

\* C27 witness: a poll returned the id of a handle once; the handle is idle,
\* its latch is still set and no copy is pending, so its wakeup_handled()
\* comes after the drain.
C27_Witness ==
    \E h \in Handles :
        /\ pc[h] = "idle"
        /\ wakeup_queued[h]
        /\ enq_since_handled[h] = 1
        /\ Count(HandleId(h), woken_connections) = 0
        /\ Count(HandleId(h), result) = 1

\* ------------------------------------------------ claims: order within encode

\* The place of a call in the order the claim states.
StepRank(call) ==
    CASE call = "ack_manager.on_transmit" -> 1
      [] call = "ack_manager.on_transmit_complete" -> 3
      [] call = "buffer.encode(Padding)" -> 4
      [] call = "tx_packet_numbers.on_transmit" -> 5
      [] OTHER -> 2

\* The place of a byte in the buffer by the frame it belongs to.
ByteRank(byte) ==
    CASE byte = "ack" -> 1
      [] byte = "data" -> 2
      [] OTHER -> 3

\* C28: the calls of one encode call follow the order ack on_transmit,
\* second producer's on_transmit, on_transmit_complete, padding, marking,
\* the two on_transmit calls always being made; in the buffer the ACK frame
\* precedes every frame of the second producer and the padding comes last.
C28_FixedStepOrder ==
    /\ \A i, j \in DOMAIN calls : i < j => StepRank(calls[i]) < StepRank(calls[j])
    /\ Ended => /\ calls[1] = "ack_manager.on_transmit"
                /\ calls[2] = SecondProducer(encoder) \o ".on_transmit"
    /\ \A i, j \in DOMAIN buffer : i < j => ByteRank(buffer[i]) <= ByteRank(buffer[j])

\* C28 witness: encode returned after all five steps; the buffer holds an
\* ACK frame, a frame of the second producer and padding.
C28_Witness ==
    /\ epc = "done"
    /\ Len(calls) = 5
    /\ \E i, j, k \in DOMAIN buffer :
           buffer[i] = "ack" /\ buffer[j] = "data" /\ buffer[k] = "padding"

\* C29 as stated: when encode has ended and on_transmit_complete was called
\* for an ack manager whose ACK frame write_frame accepted, the packet number
\* was marked in that call.
C29_CompleteImpliesMarked ==
    (Ended /\ CompleteCount = 1) => tx_marked = <<packet_number>>

\* ------------------------------------------- claims: equivalence of encoders

Unsplit == ParseH09Request(<<request>>, <<>>, FALSE)

\* The bytes the latest call on the open stream was handed: every chunk but
\* the one received after it.
LastPrefix == Flatten(SubSeq(chunks, 1, Len(chunks) - 1))

\* A request that is not complete and not wrong so far: part of "GET /", or
\* "GET /" and a path with no line end yet.
Incomplete(bytes) ==
    /\ \A i \in 1..Len(bytes) :
           IF i <= Len(Header) THEN bytes[i] = Header[i]
           ELSE bytes[i] \in Digits \cup Lower \cup Upper \cup Punctuation

\* C31: after the calls on the successive prefixes of the chunks, with the
\* path they share, the call on all chunks of the closed stream returns what
\* one call on the unsplit bytes returns and leaves the same path; a call on
\* an incomplete request of an open stream returns Ok(false); a closed
\* stream with no bytes gives an error.
C31_ChunkingInsensitive ==
    /\ stream = "closed" =>
           /\ parsed = Unsplit.parsed
           /\ path = Unsplit.path
    /\ (stream = "open" /\ Incomplete(LastPrefix)) => parsed = ParseOk(FALSE)
    /\ (stream = "closed" /\ request = <<>>) => parsed.tag = "Err"

\* C31 witness: a request received in several chunks was parsed whole after
\* a call on a prefix had left a part of the path behind; it has a request,
\* and a path longer than that part.
C31_Witness ==
    /\ stream = "closed"
    /\ Len(chunks) > 1
    /\ partial # <<>>
    /\ parsed = ParseOk(TRUE)
    /\ Len(path) > Len(partial)

====
